---- MODULE Spec2Model ----
(***************************************************************************)
(* Model of the lessons of rust-crash-course whose behaviour depends on    *)
(* run-time state (files, reference counts, borrow flags, futures):        *)
(*   - 10-error-handling.rs, fn main() -> Result<(), Box<dyn Error>>       *)
(*   - 16-asynchronous.rs, async fn main(), section "Asynchronous I/O"     *)
(*   - 13-pointers.rs, the second fn main(), sections 4 to 6.2            *)
(*   - 16-asynchronous.rs, both async fn main(), section 2                 *)
(*   - 16-asynchronous.rs, first async fn main(), sections 3 and 5         *)
(* The state is the working directory (fs), what the lesson printed (out), *)
(* the position of main (pc, ip) and of the spawned file task (tpc), the   *)
(* value main returned (ret), the reference-counted allocations (heap),    *)
(* the live local bindings of smart pointers and borrow guards (handle),   *)
(* the RefCells (cells), the futures (fut), the runtime's clock in seconds *)
(* (now), the values the awaits returned (results), the spawned background *)
(* tasks (tasks), the mpsc channel (chan) and the producer and consumer    *)
(* tasks (prod, cons).                                                     *)
(*                                                                         *)
(* Every std::fs / tokio::fs call that returns a Result may fail for a     *)
(* reason of the environment (permissions, full disk), with one exception: *)
(* remove_file of a file that exists is taken to succeed, the environment  *)
(* most favourable to cleanup, so that what is found about leftover files  *)
(* is due to the lesson's control flow alone.                              *)
(***************************************************************************)
EXTENDS Integers, Sequences, FiniteSets, TLC

VARIABLES lesson, pc, fs, out, ret, tpc, tres,
          ip, heap, handle, cells,
          fut, now, results,
          tasks, chan, prod, cons

vars == <<lesson, pc, fs, out, ret, tpc, tres, ip, heap, handle, cells, fut, now, results,
          tasks, chan, prod, cons>>

Lessons == {"error_handling", "asynchronous", "pointers", "asynchronous_v2"}

(* The demonstration files of the lessons. *)
DataFile(value) == "data_" \o ToString(value) \o ".txt"

LessonFiles ==
    {"my_empty_file.txt", "username.txt", DataFile(50), "example.txt",
     "async_example.txt"}

(* ---------------- the file system primitives ---------------- *)

Put(f, path, data) ==
    [p \in DOMAIN f \cup {path} |-> IF p = path THEN data ELSE f[p]]

Del(f, path) == [p \in DOMAIN f \ {path} |-> f[p]]

(* What a failed write_all may have left of data in the file. *)
Partial(data) ==
    CASE data = "Hello, Rust!" -> {"", "Hello"}
      [] data = "Hello from async Rust!" -> {"", "Hello"}
      [] data = "Rusty_Dev" -> {"", "Rusty"}
      [] OTHER -> {""}

(* fs::File::create: creates or truncates. *)
FileCreate(f, path) ==
    {[ok |-> TRUE, fs |-> Put(f, path, "")], [ok |-> FALSE, fs |-> f]}

(* Write::write_all on a handle File::create returned. *)
WriteAll(f, path, data) ==
    {[ok |-> TRUE, fs |-> Put(f, path, data)]}
    \cup {[ok |-> FALSE, fs |-> Put(f, path, d)] : d \in Partial(data)}

(* fs::write = File::create then write_all. *)
FsWrite(f, path, data) ==
    {[ok |-> FALSE, fs |-> f]}
    \cup UNION {WriteAll(c.fs, path, data) : c \in {x \in FileCreate(f, path) : x.ok}}

(* fs::File::open then read_to_string / read_to_end; fs::read_to_string. *)
FileOpen(f, path) ==
    IF path \in DOMAIN f THEN {TRUE, FALSE} ELSE {FALSE}

ReadAll(f, path) ==
    {[ok |-> TRUE, data |-> f[path]], [ok |-> FALSE, data |-> ""]}

FsReadToString(f, path) ==
    IF path \in DOMAIN f THEN ReadAll(f, path) ELSE {[ok |-> FALSE, data |-> ""]}

(* fs::remove_file. *)
RemoveFile(f, path) ==
    IF path \in DOMAIN f THEN [ok |-> TRUE, fs |-> Del(f, path)]
                         ELSE [ok |-> FALSE, fs |-> f]

(* ---------------- 10-error-handling.rs: the helper functions ---------------- *)

create_empty_file(f, path) ==
    {IF c.ok
       THEN [ok |-> TRUE, fs |-> c.fs,
             out |-> <<"Successfully created empty file: " \o path>>]
       ELSE [ok |-> FALSE, fs |-> c.fs, out |-> <<>>]
     : c \in FileCreate(f, path)}

read_username_from_file(f) ==
    (IF FALSE \in FileOpen(f, "username.txt")
       THEN {[ok |-> FALSE, data |-> ""]} ELSE {})
    \cup (IF TRUE \in FileOpen(f, "username.txt")
            THEN ReadAll(f, "username.txt") ELSE {})

do_something_risky(f, value) ==
    IF value = 0 THEN {[res |-> "NotFound", fs |-> f]}
    ELSE IF value < 0 THEN {[res |-> "PermissionDenied", fs |-> f]}
    ELSE IF value > 100 THEN {[res |-> "InvalidInput", fs |-> f]}
    ELSE {[res |-> IF w.ok THEN "Ok" ELSE "Io", fs |-> w.fs]
          : w \in FsWrite(f, DataFile(value), "Some data for " \o ToString(value))}

perform_io_operation(f) ==
    {[ok |-> FALSE, fs |-> c.fs, out |-> <<>>]
       : c \in {x \in FileCreate(f, "example.txt") : ~x.ok}}
    \cup UNION {
         {IF w.ok
            THEN [ok |-> TRUE, fs |-> w.fs, out |-> <<"Successfully wrote to example.txt">>]
            ELSE [ok |-> FALSE, fs |-> w.fs, out |-> <<>>]
          : w \in WriteAll(c.fs, "example.txt", "Hello, Rust!")}
         : c \in {x \in FileCreate(f, "example.txt") : x.ok}}

(* The arguments main passes to do_something_risky, in order. *)
RiskyArgs == <<0, -5, 150, 50>>

(* ---------------- the state ---------------- *)

EmptyFs == [p \in {} |-> ""]

FirstPc(l) ==
    CASE l = "error_handling" -> "e5_create"
      [] l = "asynchronous" -> "a2_call1"
      [] l = "pointers" -> "p_run"
      [] l = "asynchronous_v2" -> "b2_call1"

Init ==
    /\ lesson \in Lessons
    /\ pc = FirstPc(lesson)
    /\ fs \in {EmptyFs, Put(EmptyFs, "another_non_existent.txt", "x")}
    /\ out = <<>>
    /\ ret = "running"
    /\ tpc = "none"
    /\ tres = "none"
    /\ ip = 1
    /\ heap = EmptyFs
    /\ handle = EmptyFs
    /\ cells = EmptyFs
    /\ fut = EmptyFs
    /\ now = 0
    /\ results = EmptyFs
    /\ tasks = EmptyFs
    /\ chan = [buf |-> <<>>, sender |-> "none", receiver |-> "none"]
    /\ prod = [pc |-> "none", i |-> 0]
    /\ cons = [pc |-> "none", received |-> <<>>]

NoTask == UNCHANGED <<tpc, tres>>

NoPointers == UNCHANGED <<ip, heap, handle, cells>>

NoFutures == UNCHANGED <<fut, now, results>>

NoSpawned == UNCHANGED <<tasks, chan, prod, cons>>

(* ---------------- 10-error-handling.rs: main ---------------- *)

(* 5. match create_empty_file(file_to_create) *)
VoidResultCreate ==
    /\ lesson = "error_handling" /\ pc = "e5_create"
    /\ \E r \in create_empty_file(fs, "my_empty_file.txt") :
         /\ fs' = r.fs
         /\ out' = out \o r.out \o
                   <<IF r.ok THEN "File creation operation reported success."
                             ELSE "File creation failed">>
    /\ pc' = "e5_remove"
    /\ UNCHANGED <<lesson, ret>> /\ NoTask
    /\ NoPointers /\ NoFutures
    /\ NoSpawned

(* let _ = fs::remove_file(file_to_create) *)
VoidResultCleanup ==
    /\ lesson = "error_handling" /\ pc = "e5_remove"
    /\ fs' = RemoveFile(fs, "my_empty_file.txt").fs
    /\ pc' = "e6_write"
    /\ UNCHANGED <<lesson, out, ret>> /\ NoTask
    /\ NoPointers /\ NoFutures
    /\ NoSpawned

(* 6. let _ = fs::write("username.txt", "Rusty_Dev") *)
UsernameWrite ==
    /\ lesson = "error_handling" /\ pc = "e6_write"
    /\ \E w \in FsWrite(fs, "username.txt", "Rusty_Dev") : fs' = w.fs
    /\ pc' = "e6_read"
    /\ UNCHANGED <<lesson, out, ret>> /\ NoTask
    /\ NoPointers /\ NoFutures
    /\ NoSpawned

(* match read_username_from_file() *)
UsernameRead ==
    /\ lesson = "error_handling" /\ pc = "e6_read"
    /\ \E r \in read_username_from_file(fs) :
         out' = Append(out, IF r.ok THEN "Username from file: " \o r.data
                                    ELSE "Error reading username")
    /\ pc' = "e6_remove"
    /\ UNCHANGED <<lesson, fs, ret>> /\ NoTask
    /\ NoPointers /\ NoFutures
    /\ NoSpawned

(* let _ = fs::remove_file("username.txt") *)
UsernameCleanup ==
    /\ lesson = "error_handling" /\ pc = "e6_remove"
    /\ fs' = RemoveFile(fs, "username.txt").fs
    /\ pc' = "e6_nonexistent"
    /\ UNCHANGED <<lesson, out, ret>> /\ NoTask
    /\ NoPointers /\ NoFutures
    /\ NoSpawned

(* let content_from_non_existent = fs::read_to_string(..); if it is_err() *)
ReadNonExistent ==
    /\ lesson = "error_handling" /\ pc = "e6_nonexistent"
    /\ \E r \in FsReadToString(fs, "another_non_existent.txt") :
         out' = IF r.ok THEN out
                ELSE Append(out, "Attempted to read non-existent file in main.")
    /\ pc' = "e8_risky_1"
    /\ UNCHANGED <<lesson, fs, ret>> /\ NoTask
    /\ NoPointers /\ NoFutures
    /\ NoSpawned

(* 8. the i-th match do_something_risky(..) of main *)
Risky(i) ==
    /\ lesson = "error_handling" /\ pc = "e8_risky_" \o ToString(i)
    /\ \E r \in do_something_risky(fs, RiskyArgs[i]) :
         /\ fs' = r.fs
         /\ out' = Append(out,
                     IF r.res = "Ok"
                       THEN "Operation successful with value: " \o ToString(RiskyArgs[i])
                       ELSE "Risky operation failed: " \o r.res)
    /\ pc' = IF i < Len(RiskyArgs) THEN "e8_risky_" \o ToString(i + 1) ELSE "e8_remove"
    /\ UNCHANGED <<lesson, ret>> /\ NoTask
    /\ NoPointers /\ NoFutures
    /\ NoSpawned

(* let _ = fs::remove_file("data_50.txt") *)
RiskyCleanup ==
    /\ lesson = "error_handling" /\ pc = "e8_remove"
    /\ fs' = RemoveFile(fs, "data_50.txt").fs
    /\ pc' = "e9_io"
    /\ UNCHANGED <<lesson, out, ret>> /\ NoTask
    /\ NoPointers /\ NoFutures
    /\ NoSpawned

(* 9. perform_io_operation()?;  an Err returns from main at once *)
PerformIo ==
    /\ lesson = "error_handling" /\ pc = "e9_io"
    /\ \E r \in perform_io_operation(fs) :
         /\ fs' = r.fs
         /\ out' = out \o r.out
         /\ pc' = IF r.ok THEN "e9_remove" ELSE "done"
         /\ ret' = IF r.ok THEN ret ELSE "Err"
    /\ UNCHANGED lesson /\ NoTask
    /\ NoPointers /\ NoFutures
    /\ NoSpawned

(* let _ = fs::remove_file("example.txt") *)
PerformIoCleanup ==
    /\ lesson = "error_handling" /\ pc = "e9_remove"
    /\ fs' = RemoveFile(fs, "example.txt").fs
    /\ pc' = "e9_end"
    /\ UNCHANGED <<lesson, out, ret>> /\ NoTask
    /\ NoPointers /\ NoFutures
    /\ NoSpawned

(* println!(.. completed successfully ..); Ok(()) *)
ErrorHandlingReturn ==
    /\ lesson = "error_handling" /\ pc = "e9_end"
    /\ out' = Append(out, "--- All examples completed successfully. ---")
    /\ pc' = "done"
    /\ ret' = "Ok"
    /\ UNCHANGED <<lesson, fs>> /\ NoTask
    /\ NoPointers /\ NoFutures
    /\ NoSpawned

ErrorHandlingMain ==
    \/ VoidResultCreate \/ VoidResultCleanup
    \/ UsernameWrite \/ UsernameRead \/ UsernameCleanup \/ ReadNonExistent
    \/ \E i \in 1..Len(RiskyArgs) : Risky(i)
    \/ RiskyCleanup
    \/ PerformIo \/ PerformIoCleanup \/ ErrorHandlingReturn

(* ---------------- 16-asynchronous.rs: write_and_read_file, a spawned task ---------------- *)

(* println!("Writing to file"); fs::File::create(path).await? *)
TaskCreate ==
    /\ lesson = "asynchronous" /\ tpc = "t_create"
    /\ \E c \in FileCreate(fs, "async_example.txt") :
         /\ fs' = c.fs
         /\ tpc' = IF c.ok THEN "t_write" ELSE "t_done"
         /\ tres' = IF c.ok THEN tres ELSE "Err"
    /\ out' = Append(out, "Writing to file: async_example.txt")
    /\ UNCHANGED <<lesson, pc, ret>>
    /\ NoPointers /\ NoFutures
    /\ NoSpawned

(* file.write_all(data.as_bytes()).await?; two println! *)
TaskWrite ==
    /\ lesson = "asynchronous" /\ tpc = "t_write"
    /\ \E w \in WriteAll(fs, "async_example.txt", "Hello from async Rust!") :
         /\ fs' = w.fs
         /\ tpc' = IF w.ok THEN "t_open" ELSE "t_done"
         /\ tres' = IF w.ok THEN tres ELSE "Err"
         /\ out' = IF w.ok
                     THEN out \o <<"Finished writing to file.",
                                   "Reading from file: async_example.txt">>
                     ELSE out
    /\ UNCHANGED <<lesson, pc, ret>>
    /\ NoPointers /\ NoFutures
    /\ NoSpawned

(* fs::File::open(path).await? *)
TaskOpen ==
    /\ lesson = "asynchronous" /\ tpc = "t_open"
    /\ \E o \in FileOpen(fs, "async_example.txt") :
         /\ tpc' = IF o THEN "t_read" ELSE "t_done"
         /\ tres' = IF o THEN tres ELSE "Err"
    /\ UNCHANGED <<lesson, pc, fs, out, ret>>
    /\ NoPointers /\ NoFutures
    /\ NoSpawned

(* file.read_to_end(&mut buffer).await?; println!; Ok(..) *)
TaskRead ==
    /\ lesson = "asynchronous" /\ tpc = "t_read"
    /\ \E r \in ReadAll(fs, "async_example.txt") :
         /\ tres' = IF r.ok THEN "Ok: " \o r.data ELSE "Err"
         /\ out' = IF r.ok THEN Append(out, "Finished reading from file.") ELSE out
    /\ tpc' = "t_done"
    /\ UNCHANGED <<lesson, pc, fs, ret>>
    /\ NoPointers /\ NoFutures
    /\ NoSpawned

(* ---------------- 16-asynchronous.rs: main, section 4 ---------------- *)

(* let file_handle = tokio::spawn(write_and_read_file(file_path, content)) *)
SpawnFileTask ==
    /\ lesson = "asynchronous" /\ pc = "a4_spawn"
    /\ tpc' = "t_create"
    /\ pc' = "a4_other"
    /\ UNCHANGED <<lesson, fs, out, ret, tres>>
    /\ NoPointers /\ NoFutures
    /\ NoSpawned

(* println!("Performing other tasks ..."); sleep(500ms).await begins *)
OtherTasks ==
    /\ lesson = "asynchronous" /\ pc = "a4_other"
    /\ out' = Append(out, "Performing other tasks while file I/O is in progress...")
    /\ pc' = "a4_sleep"
    /\ UNCHANGED <<lesson, fs, ret>> /\ NoTask
    /\ NoPointers /\ NoFutures
    /\ NoSpawned

(* the sleep is over; println!("Other tasks continue...") *)
OtherTasksContinue ==
    /\ lesson = "asynchronous" /\ pc = "a4_sleep"
    /\ out' = Append(out, "Other tasks continue...")
    /\ pc' = "a4_await"
    /\ UNCHANGED <<lesson, fs, ret>> /\ NoTask
    /\ NoPointers /\ NoFutures
    /\ NoSpawned

(* match file_handle.await: resumes once the task has finished *)
AwaitFileTask ==
    /\ lesson = "asynchronous" /\ pc = "a4_await"
    /\ tpc = "t_done"
    /\ out' = Append(out, IF tres = "Err" THEN "File operation error"
                                          ELSE "Content read from file: " \o tres)
    /\ pc' = "a4_remove"
    /\ UNCHANGED <<lesson, fs, ret>> /\ NoTask
    /\ NoPointers /\ NoFutures
    /\ NoSpawned

(* if let Err(e) = std::fs::remove_file(file_path) { eprintln! } *)
AsyncCleanup ==
    /\ lesson = "asynchronous" /\ pc = "a4_remove"
    /\ LET r == RemoveFile(fs, "async_example.txt") IN
         /\ fs' = r.fs
         /\ out' = IF r.ok THEN out
                   ELSE Append(out, "Failed to clean up file async_example.txt")
    /\ pc' = "a5_channels"
    /\ UNCHANGED <<lesson, ret>> /\ NoTask
    /\ NoPointers /\ NoFutures
    /\ NoSpawned

(* ---------------- 16-asynchronous.rs: first main, section 5 ---------------- *)

(* mpsc::channel(10): the bound of the channel's buffer *)
Capacity == 10

(* for i in 0..3: the exclusive end of the producer's range *)
LoopEnd == 3

Message(i) == "Message " \o ToString(i)

(* mpsc::channel: an empty buffer, one Sender and the Receiver *)
NewChannel == [buf |-> <<>>, sender |-> "live", receiver |-> "live"]

(* sender.send(msg).await: an error once the receiver is gone, pending while
   the buffer is full, else the message joins the back of the buffer *)
Send(c, msg) ==
    IF c.receiver = "dropped" THEN [kind |-> "err", chan |-> c]
    ELSE IF Len(c.buf) >= Capacity THEN [kind |-> "pending", chan |-> c]
    ELSE [kind |-> "ok", chan |-> [c EXCEPT !.buf = Append(c.buf, msg)]]

(* a recv that reports the channel closed as soon as the sender is gone,
   messages still in the buffer or not *)
RecvLossy(c) ==
    IF c.sender = "dropped" THEN [kind |-> "none", msg |-> "", chan |-> c]
    ELSE IF c.buf # <<>>
      THEN [kind |-> "some", msg |-> Head(c.buf), chan |-> [c EXCEPT !.buf = Tail(c.buf)]]
    ELSE [kind |-> "pending", msg |-> "", chan |-> c]

(* receiver.recv().await: the front of the buffer; None once the buffer is
   empty and every Sender has been dropped; pending otherwise *)
Recv(c) ==
    IF c.buf # <<>>
      THEN [kind |-> "some", msg |-> Head(c.buf), chan |-> [c EXCEPT !.buf = Tail(c.buf)]]
    ELSE IF c.sender = "dropped" THEN [kind |-> "none", msg |-> "", chan |-> c]
    ELSE [kind |-> "pending", msg |-> "", chan |-> c]

NoChannelMain == UNCHANGED <<lesson, fs, ret, tasks>> /\ NoTask /\ NoPointers /\ NoFutures

(* let (tx, rx) = mpsc::channel(10) *)
ChannelCreate ==
    /\ lesson = "asynchronous" /\ pc = "a5_channels"
    /\ chan' = NewChannel
    /\ pc' = "a5_spawn_producer"
    /\ UNCHANGED <<out, prod, cons>> /\ NoChannelMain

(* tokio::spawn(producer(tx)) *)
SpawnProducer ==
    /\ lesson = "asynchronous" /\ pc = "a5_spawn_producer"
    /\ prod' = [pc |-> "loop", i |-> 0]
    /\ pc' = "a5_spawn_consumer"
    /\ UNCHANGED <<out, chan, cons>> /\ NoChannelMain

(* tokio::spawn(consumer(rx)) *)
SpawnConsumer ==
    /\ lesson = "asynchronous" /\ pc = "a5_spawn_consumer"
    /\ cons' = [pc |-> "recv", received |-> <<>>]
    /\ pc' = "a5_await"
    /\ UNCHANGED <<out, chan, prod>> /\ NoChannelMain

(* producer: the head of the for loop; the body up to the send, or the
   return that drops the Sender *)
ProducerLoop ==
    /\ lesson = "asynchronous" /\ prod.pc = "loop"
    /\ IF prod.i < LoopEnd
         THEN /\ out' = Append(out, "[Producer] Sending: " \o Message(prod.i))
              /\ prod' = [prod EXCEPT !.pc = "send"]
              /\ chan' = chan
         ELSE /\ prod' = [prod EXCEPT !.pc = "done"]
              /\ chan' = [chan EXCEPT !.sender = "dropped"]
              /\ out' = out
    /\ UNCHANGED <<pc, cons>> /\ NoChannelMain

(* producer: sender.send(msg).await.expect("Failed to send message") *)
ProducerSend ==
    /\ lesson = "asynchronous" /\ prod.pc = "send"
    /\ LET r == Send(chan, Message(prod.i)) IN
         /\ r.kind # "pending"
         /\ chan' = IF r.kind = "ok" THEN r.chan ELSE [chan EXCEPT !.sender = "dropped"]
         /\ prod' = [prod EXCEPT !.pc = IF r.kind = "ok" THEN "sleep" ELSE "panicked"]
    /\ UNCHANGED <<pc, out, cons>> /\ NoChannelMain

(* producer: tokio::time::sleep(Duration::from_millis(100)).await is over *)
ProducerWake ==
    /\ lesson = "asynchronous" /\ prod.pc = "sleep"
    /\ prod' = [pc |-> "loop", i |-> prod.i + 1]
    /\ UNCHANGED <<pc, out, chan, cons>> /\ NoChannelMain

(* consumer: while let Some(msg) = receiver.recv().await, and the println!
   after the loop; received is the history of the messages recv returned *)
ConsumerRecv ==
    /\ lesson = "asynchronous" /\ cons.pc = "recv"
    /\ LET r == Recv(chan) IN
         /\ r.kind # "pending"
         /\ IF r.kind = "some"
              THEN /\ chan' = r.chan
                   /\ cons' = [cons EXCEPT !.received = Append(@, r.msg)]
                   /\ out' = Append(out, "[Consumer] Received: " \o r.msg)
              ELSE /\ chan' = [chan EXCEPT !.receiver = "dropped"]
                   /\ cons' = [cons EXCEPT !.pc = "done"]
                   /\ out' = Append(out, "[Consumer] Channel closed.")
    /\ UNCHANGED <<pc, prod>> /\ NoChannelMain

AsyncSection5 ==
    \/ ChannelCreate \/ SpawnProducer \/ SpawnConsumer
    \/ ProducerLoop \/ ProducerSend \/ ProducerWake \/ ConsumerRecv

(* the JoinHandle of the consumer resolves; main prints the last line and
   returns () *)
AsyncReturn ==
    /\ lesson = "asynchronous" /\ pc = "a5_await" /\ cons.pc = "done"
    /\ out' = Append(out, "--- End of Asynchronous Programming Examples ---")
    /\ pc' = "done"
    /\ ret' = "Ok"
    /\ UNCHANGED <<lesson, fs>> /\ NoTask
    /\ NoPointers /\ NoFutures
    /\ NoSpawned

AsyncMain ==
    \/ SpawnFileTask \/ OtherTasks \/ OtherTasksContinue
    \/ AwaitFileTask \/ AsyncCleanup \/ AsyncSection5 \/ AsyncReturn
    \/ TaskCreate \/ TaskWrite \/ TaskOpen \/ TaskRead

(* ---------------- 13-pointers.rs: Rc, Weak and RefCell ---------------- *)

(* Rc::new: one strong reference, no Weak. *)
RcNew(h, a) ==
    [x \in DOMAIN h \cup {a} |-> IF x = a THEN [strong |-> 1, weak |-> 0] ELSE h[x]]

(* an Rc::clone that forgets to count the new handle *)
RcCloneUncounted(h, a) == h

(* Rc::clone *)
RcClone(h, a) == [h EXCEPT ![a].strong = @ + 1]

(* drop of an Rc; the value is dropped when strong reaches 0 *)
RcDrop(h, a) == [h EXCEPT ![a].strong = @ - 1]

(* Rc::downgrade and the drop of a Weak *)
RcDowngrade(h, a) == [h EXCEPT ![a].weak = @ + 1]

WeakDrop(h, a) == [h EXCEPT ![a].weak = @ - 1]

(* Weak::upgrade: None once the value has been dropped *)
WeakUpgrade(h, a) ==
    IF h[a].strong = 0 THEN [some |-> FALSE, heap |-> h]
                       ELSE [some |-> TRUE, heap |-> RcClone(h, a)]

(* Rc::strong_count, Rc::weak_count, Weak::weak_count *)
strong_count(h, a) == h[a].strong

weak_count(h, a) == h[a].weak

WeakWeakCount(h, a) == IF h[a].strong = 0 THEN 0 ELSE h[a].weak

(* RefCell::new; borrow counts the Ref guards, -1 stands for a RefMut *)
RefCellNew(c, name, v) ==
    [x \in DOMAIN c \cup {name} |-> IF x = name THEN [borrow |-> 0, vec |-> v] ELSE c[x]]

(* RefCell::borrow and RefCell::borrow_mut panic instead of handing out a
   guard the borrowing rules forbid *)
CanBorrow(c, name) == c[name].borrow >= 0

CanBorrowMut(c, name) == c[name].borrow = 0

RefCellBorrow(c, name) == [c EXCEPT ![name].borrow = @ + 1]

RefCellBorrowMut(c, name) == [c EXCEPT ![name].borrow = -1]

RefDrop(c, name) == [c EXCEPT ![name].borrow = @ - 1]

RefMutDrop(c, name) == [c EXCEPT ![name].borrow = 0]

(* the local bindings *)
Bind(hd, v, kind, target) ==
    [x \in DOMAIN hd \cup {v} |-> IF x = v THEN [kind |-> kind, target |-> target] ELSE hd[x]]

Unbind(hd, v) == [x \in DOMAIN hd \ {v} |-> hd[x]]

(* The statements of main from section 4 to section 6.2 that act on an Rc,
   a Weak or a RefCell, or print; line is the source line of the statement,
   a the variable it binds or uses, b the variable it reads or the text it
   prints, c a jump target (a line) or a value.  Section 6.1 (Cell) and
   section 7 use none of this state. *)
Ins(line, kind, a, b, c) == [line |-> line, kind |-> kind, a |-> a, b |-> b, c |-> c]

PointersMain ==
    << Ins(338, "rc_new", "rc_data", "", 0),
       Ins(339, "rc_clone", "rc_clone_a", "rc_data", 0),
       Ins(340, "rc_clone", "rc_clone_b", "rc_data", 0),
       Ins(342, "print_strong", "rc_data", "Reference count: ", 0),
       Ins(349, "rc_new", "shared_vec", "", 0),
       Ins(355, "print_strong", "shared_vec", "Strong count after creation: ", 0),
       Ins(360, "rc_clone", "consumer1", "shared_vec", 0),
       Ins(361, "print_strong", "shared_vec", "Strong count after consumer1 clone: ", 0),
       Ins(366, "rc_clone", "consumer2", "shared_vec", 0),
       Ins(367, "print_strong", "shared_vec", "Strong count after consumer2 clone: ", 0),
       Ins(384, "downgrade", "weak_ref", "shared_vec", 0),
       Ins(385, "print_strong", "shared_vec", "Weak reference created. Strong count: ", 0),
       Ins(389, "print_weak", "shared_vec", "Weak count: ", 0),
       Ins(392, "upgrade", "upgraded_rc", "weak_ref", 399),
       Ins(393, "print", "", "Successfully upgraded weak reference", 0),
       Ins(394, "print_strong", "shared_vec", "Strong count after upgrade check: ", 0),
       Ins(398, "end_block", "upgraded_rc", "", 403),
       Ins(399, "print", "", "Failed to upgrade weak reference (should not happen yet).", 0),
       Ins(403, "drop", "shared_vec", "", 0),
       Ins(404, "print_strong", "rc_clone_a", "Original Rc dropped. Strong count: ", 0),
       Ins(408, "print_weak", "rc_clone_a", "Weak count: ", 0),
       Ins(410, "drop", "rc_clone_a", "", 0),
       Ins(411, "print_strong", "rc_clone_b", "First clone dropped. Strong count: ", 0),
       Ins(415, "print_weak", "rc_clone_b", "Weak count: ", 0),
       Ins(417, "drop", "rc_clone_b", "", 0),
       Ins(418, "print", "", "Second clone dropped. Strong count: 0", 0),
       Ins(419, "print_weak_of_weak", "weak_ref", "Weak count: ", 0),
       Ins(429, "upgrade", "rc", "weak_ref", 434),
       Ins(430, "print", "", "Successfully upgraded weak reference (after drop)", 0),
       Ins(433, "end_block", "rc", "", 502),
       Ins(434, "print", "", "Failed to upgrade weak reference: The data has been dropped.", 0),
       Ins(502, "refcell_new", "my_vec", "", <<10, 20, 30>>),
       Ins(506, "borrow", "borrowed_immut", "my_vec", 0),
       Ins(507, "print_vec", "borrowed_immut", "Immutably borrowed vector: ", 0),
       Ins(510, "borrow_mut", "borrowed_mut", "my_vec", 0),
       Ins(511, "push", "borrowed_mut", "", 40),
       Ins(512, "print_vec", "borrowed_mut", "Mutably borrowed and modified vector: ", 0),
       Ins(513, "drop", "borrowed_mut", "", 0),
       Ins(518, "refcell_new", "data_vec", "", <<1, 2, 3>>),
       Ins(521, "borrow", "r1", "data_vec", 0),
       Ins(522, "print_vec", "r1", "First immutable borrow: ", 0),
       Ins(536, "borrow_mut", "mut_vec_ref", "data_vec", 0),
       Ins(537, "print_vec", "mut_vec_ref", "Mutably borrowed: ", 0),
       Ins(540, "push", "mut_vec_ref", "", 100),
       Ins(541, "print_vec", "mut_vec_ref", "Value pushed. Mutably borrowed: ", 0),
       Ins(544, "drop", "mut_vec_ref", "", 0),
       Ins(545, "print_len", "", "data_vec", 0),
       Ins(588, "return", "", "", 0) >>

IndexOf(line) == CHOOSE i \in 1..Len(PointersMain) : PointersMain[i].line = line

(* The effect of one statement on the state s = [heap, handle, cells, out,
   ip, ret]. *)
DropBinding(s, v) ==
    LET b == s.handle[v] IN
    [s EXCEPT !.handle = Unbind(s.handle, v),
              !.heap = CASE b.kind = "rc" -> RcDrop(s.heap, b.target)
                         [] b.kind = "weak" -> WeakDrop(s.heap, b.target)
                         [] OTHER -> s.heap,
              !.cells = CASE b.kind = "ref" -> RefDrop(s.cells, b.target)
                          [] b.kind = "refmut" -> RefMutDrop(s.cells, b.target)
                          [] OTHER -> s.cells]

(* A panic unwinds main: every local is dropped. *)
RECURSIVE DropAll(_)
DropAll(s) ==
    IF DOMAIN s.handle = {} THEN s
    ELSE DropAll(DropBinding(s, CHOOSE v \in DOMAIN s.handle : TRUE))

Panic(s, msg) ==
    [DropAll(s) EXCEPT !.out = Append(s.out, "panicked: " \o msg), !.ret = "Panic"]

Goto(s, line) == [s EXCEPT !.ip = IndexOf(line)]

Step(s) == [s EXCEPT !.ip = @ + 1]

Say(s, msg) == [s EXCEPT !.out = Append(@, msg)]

Exec(s, i) ==
    LET tgt == IF i.b \in DOMAIN s.handle THEN s.handle[i.b].target ELSE i.b
        own == IF i.a \in DOMAIN s.handle THEN s.handle[i.a].target ELSE i.a
    IN
    CASE i.kind = "rc_new" ->
           Step([s EXCEPT !.heap = RcNew(@, i.a), !.handle = Bind(@, i.a, "rc", i.a)])
      [] i.kind = "rc_clone" ->
           Step([s EXCEPT !.heap = RcClone(@, tgt), !.handle = Bind(@, i.a, "rc", tgt)])
      [] i.kind = "downgrade" ->
           Step([s EXCEPT !.heap = RcDowngrade(@, tgt), !.handle = Bind(@, i.a, "weak", tgt)])
      [] i.kind = "upgrade" ->
           LET u == WeakUpgrade(s.heap, tgt) IN
           IF u.some
             THEN Step([s EXCEPT !.heap = u.heap, !.handle = Bind(@, i.a, "rc", tgt)])
             ELSE Goto(s, i.c)
      [] i.kind = "end_block" -> Goto(DropBinding(s, i.a), i.c)
      [] i.kind = "drop" -> Step(DropBinding(s, i.a))
      [] i.kind = "print" -> Step(Say(s, i.b))
      [] i.kind = "print_strong" ->
           Step(Say(s, i.b \o ToString(strong_count(s.heap, own))))
      [] i.kind = "print_weak" ->
           Step(Say(s, i.b \o ToString(weak_count(s.heap, own))))
      [] i.kind = "print_weak_of_weak" ->
           Step(Say(s, i.b \o ToString(WeakWeakCount(s.heap, own))))
      [] i.kind = "refcell_new" ->
           Step([s EXCEPT !.cells = RefCellNew(@, i.a, i.c)])
      [] i.kind = "borrow" ->
           IF CanBorrow(s.cells, i.b)
             THEN Step([s EXCEPT !.cells = RefCellBorrow(@, i.b),
                                 !.handle = Bind(@, i.a, "ref", i.b)])
             ELSE Panic(s, "already mutably borrowed: BorrowError")
      [] i.kind = "borrow_mut" ->
           IF CanBorrowMut(s.cells, i.b)
             THEN Step([s EXCEPT !.cells = RefCellBorrowMut(@, i.b),
                                 !.handle = Bind(@, i.a, "refmut", i.b)])
             ELSE Panic(s, "already borrowed: BorrowMutError")
      [] i.kind = "push" ->
           Step([s EXCEPT !.cells[own].vec = Append(@, i.c)])
      [] i.kind = "print_vec" ->
           Step(Say(s, i.b \o ToString(s.cells[own].vec)))
      [] i.kind = "print_len" ->
           IF CanBorrow(s.cells, i.b)
             THEN Step(Say(s, "Length after modification: "
                              \o ToString(Len(s.cells[i.b].vec))))
             ELSE Panic(s, "already mutably borrowed: BorrowError")
      [] i.kind = "return" ->
           [DropAll(s) EXCEPT !.out = Append(s.out, "--- End of Advanced Pointers Examples ---"),
                              !.ret = "Ok"]

(* main executes its next statement *)
PointersStep ==
    /\ lesson = "pointers" /\ pc = "p_run"
    /\ LET s == [heap |-> heap, handle |-> handle, cells |-> cells,
                 out |-> out, ip |-> ip, ret |-> ret]
           t == Exec(s, PointersMain[ip])
       IN /\ heap' = t.heap
          /\ handle' = t.handle
          /\ cells' = t.cells
          /\ out' = t.out
          /\ ip' = t.ip
          /\ ret' = t.ret
          /\ pc' = IF t.ret = "running" THEN pc ELSE "done"
    /\ UNCHANGED <<lesson, fs>> /\ NoTask /\ NoFutures
    /\ NoSpawned

(* ---------------- 16-asynchronous.rs: futures ---------------- *)

Fetching(id) == "[Task " \o ToString(id) \o "] Fetching data asynchronously..."

Fetched(id) == "[Task " \o ToString(id) \o "] Data fetched asynchronously!"

FetchValue(id) == "Asynchronous Data from Task " \o ToString(id)

(* an async fn whose body starts to run when it is called *)
AsyncCallEager(f, o, name, id, delay) ==
    [fut |-> [x \in DOMAIN f \cup {name} |->
                 IF x = name
                   THEN [state |-> "sleeping", id |-> id, delay |-> delay, deadline |-> delay]
                   ELSE f[x]],
     out |-> Append(o, Fetching(id))]

(* Calling fetch_data_async(id): a Future is built, none of the body runs.
   delay is the Duration::from_secs of the body's sleep. *)
AsyncCall(f, o, name, id, delay) ==
    [fut |-> [x \in DOMAIN f \cup {name} |->
                 IF x = name
                   THEN [state |-> "created", id |-> id, delay |-> delay, deadline |-> 0]
                   ELSE f[x]],
     out |-> o]

(* a poll that reports the future ready as soon as it has been started *)
PollDetached(fu, t) ==
    IF fu.state = "created"
      THEN [fut |-> [fu EXCEPT !.state = "sleeping", !.deadline = t + fu.delay],
            out |-> <<Fetching(fu.id)>>, ready |-> TRUE, value |-> ""]
      ELSE [fut |-> fu, out |-> <<>>, ready |-> FALSE, value |-> ""]

(* One poll of the future of fetch_data_async at time t: the body runs to
   its next await point. *)
Poll(fu, t) ==
    IF fu.state = "created"
      THEN [fut |-> [fu EXCEPT !.state = "sleeping", !.deadline = t + fu.delay],
            out |-> <<Fetching(fu.id)>>, ready |-> FALSE, value |-> ""]
    ELSE IF fu.state = "sleeping" /\ t >= fu.deadline
      THEN [fut |-> [fu EXCEPT !.state = "done"],
            out |-> <<Fetched(fu.id)>>, ready |-> TRUE, value |-> FetchValue(fu.id)]
    ELSE [fut |-> fu, out |-> <<>>, ready |-> FALSE, value |-> ""]

(* main is polled when it reaches the .await and when the timer it waits
   for has fired *)
Wakeable(fu, t) ==
    \/ fu.state = "created"
    \/ fu.state = "sleeping" /\ t >= fu.deadline

(* let var = name.await *)
Await(from, name, var, to) ==
    /\ pc = from
    /\ name \in DOMAIN fut
    /\ Wakeable(fut[name], now)
    /\ LET r == Poll(fut[name], now) IN
         /\ fut' = [fut EXCEPT ![name] = r.fut]
         /\ out' = out \o r.out
         /\ pc' = IF r.ready THEN to ELSE pc
         /\ results' = IF r.ready
                         THEN [x \in DOMAIN results \cup {var} |->
                                 IF x = var THEN r.value ELSE results[x]]
                         ELSE results
    /\ UNCHANGED <<lesson, fs, ret, now>> /\ NoTask /\ NoPointers
    /\ NoSpawned

(* let name = fetch_data_async(id) *)
Call(from, name, id, delay, to) ==
    /\ pc = from
    /\ LET r == AsyncCall(fut, out, name, id, delay) IN
         /\ fut' = r.fut
         /\ out' = r.out
    /\ pc' = to
    /\ UNCHANGED <<lesson, fs, ret, now, results>> /\ NoTask /\ NoPointers
    /\ NoSpawned

(* ---------------- 16-asynchronous.rs: first main, section 2 ---------------- *)

CallFetch1 == lesson = "asynchronous" /\ Call("a2_call1", "future1", 1, 2, "a2_call2")

CallFetch2 == lesson = "asynchronous" /\ Call("a2_call2", "future2", 2, 2, "a2_print")

(* the two println! between the calls and the awaits *)
FuturesCreated ==
    /\ lesson = "asynchronous" /\ pc = "a2_print"
    /\ out' = out \o <<"Futures created, but not yet executed.",
                       "This line runs immediately after Workspace_data_async returns Futures.">>
    /\ pc' = "a2_await1"
    /\ UNCHANGED <<lesson, fs, ret>> /\ NoTask /\ NoPointers /\ NoFutures
    /\ NoSpawned

AwaitFuture1 == lesson = "asynchronous" /\ Await("a2_await1", "future1", "data1", "a2_await2")

AwaitFuture2 == lesson = "asynchronous" /\ Await("a2_await2", "future2", "data2", "a2_results")

(* the three println! of the results *)
PrintResults ==
    /\ lesson = "asynchronous" /\ pc = "a2_results"
    /\ out' = out \o <<"Result from Task 1: " \o results["data1"],
                       "Result from Task 2: " \o results["data2"],
                       "All asynchronous operations finished.">>
    /\ pc' = "a3_spawn_1"
    /\ UNCHANGED <<lesson, fs, ret>> /\ NoTask /\ NoPointers /\ NoFutures
    /\ NoSpawned

AsyncSection2 ==
    \/ CallFetch1 \/ CallFetch2 \/ FuturesCreated
    \/ AwaitFuture1 \/ AwaitFuture2 \/ PrintResults

(* ---------------- 16-asynchronous.rs: first main, section 3 ---------------- *)

(* The three tokio::spawn(background_task(name, delay_secs)) of main, in
   order, with the variable each handle's result is bound to. *)
Background ==
    << [name |-> "Task A", delay |-> 3, var |-> "result_a"],
       [name |-> "Task B", delay |-> 1, var |-> "result_b"],
       [name |-> "Task C", delay |-> 2, var |-> "result_c"] >>

Starting(name) == "[" \o name \o "] Starting..."

Finished(name) == "[" \o name \o "] Finished!"

TaskResult(name) == "Result from " \o name

(* One poll of background_task(name, ..) at time t: the body runs to its
   next await point. *)
background_task(tk, name, t) ==
    IF tk.state = "spawned"
      THEN [task |-> [tk EXCEPT !.state = "sleeping", !.deadline = t + tk.delay],
            out |-> <<Starting(name)>>]
    ELSE IF tk.state = "sleeping" /\ t >= tk.deadline
      THEN [task |-> [tk EXCEPT !.state = "done", !.result = TaskResult(name)],
            out |-> <<Finished(name)>>]
    ELSE [task |-> tk, out |-> <<>>]

(* a JoinHandle that resolves whether or not its task has finished *)
JoinReadyAlways(tk) == TRUE

(* handle.await resolves once the task has completed *)
JoinReady(tk) == tk.state = "done"

(* let handle_k = tokio::spawn(background_task(..)) *)
SpawnBackground(k) ==
    /\ lesson = "asynchronous" /\ pc = "a3_spawn_" \o ToString(k)
    /\ tasks' = [n \in DOMAIN tasks \cup {Background[k].name} |->
                   IF n = Background[k].name
                     THEN [state |-> "spawned", delay |-> Background[k].delay,
                           deadline |-> 0, result |-> ""]
                     ELSE tasks[n]]
    /\ pc' = IF k < Len(Background) THEN "a3_spawn_" \o ToString(k + 1) ELSE "a3_continue"
    /\ UNCHANGED <<lesson, fs, out, ret, chan, prod, cons>>
    /\ NoTask /\ NoPointers /\ NoFutures

(* println!("Main function continues while tasks are running in background.") *)
MainContinues ==
    /\ lesson = "asynchronous" /\ pc = "a3_continue"
    /\ out' = Append(out, "Main function continues while tasks are running in background.")
    /\ pc' = "a3_await_1"
    /\ UNCHANGED <<lesson, fs, ret>> /\ NoTask /\ NoPointers /\ NoFutures /\ NoSpawned

(* a spawned task the runtime can poll with progress at time t *)
Runnable(tk, t) ==
    \/ tk.state = "spawned"
    \/ tk.state = "sleeping" /\ t >= tk.deadline

(* the runtime polls a spawned task that can make progress *)
RunBackground(n) ==
    /\ lesson = "asynchronous" /\ n \in DOMAIN tasks
    /\ Runnable(tasks[n], now)
    /\ LET r == background_task(tasks[n], n, now) IN
         /\ tasks' = [tasks EXCEPT ![n] = r.task]
         /\ out' = out \o r.out
    /\ UNCHANGED <<lesson, pc, fs, ret, chan, prod, cons>>
    /\ NoTask /\ NoPointers /\ NoFutures

(* let result_x = handle_k.await.expect(..) *)
JoinBackground(k) ==
    /\ lesson = "asynchronous" /\ pc = "a3_await_" \o ToString(k)
    /\ JoinReady(tasks[Background[k].name])
    /\ results' = [x \in DOMAIN results \cup {Background[k].var} |->
                     IF x = Background[k].var THEN tasks[Background[k].name].result
                                              ELSE results[x]]
    /\ pc' = IF k < Len(Background) THEN "a3_await_" \o ToString(k + 1) ELSE "a3_collected"
    /\ UNCHANGED <<lesson, fs, out, ret, fut, now>>
    /\ NoTask /\ NoPointers /\ NoSpawned

Collected(a, b, c) == "Collected results: " \o a \o ", " \o b \o ", " \o c

(* println!("Collected results: {}, {}, {}", result_a, result_b, result_c) *)
PrintCollected ==
    /\ lesson = "asynchronous" /\ pc = "a3_collected"
    /\ out' = out \o <<Collected(results["result_a"], results["result_b"], results["result_c"]),
                       "All spawned tasks completed.">>
    /\ pc' = "a4_spawn"
    /\ UNCHANGED <<lesson, fs, ret>> /\ NoTask /\ NoPointers /\ NoFutures /\ NoSpawned

(* main is suspended in handle_k.await *)
MainWaits ==
    \E k \in 1..Len(Background) :
        /\ pc = "a3_await_" \o ToString(k)
        /\ ~JoinReady(tasks[Background[k].name])

(* A second passes while a sleep is pending.  The clock counts whole
   seconds and the statements between two await points take far less, so
   among the spawned tasks a second passes only once every task and main
   are suspended. *)
Tick ==
    /\ \/ \E f \in DOMAIN fut : fut[f].state = "sleeping" /\ fut[f].deadline > now
       \/ /\ \E n \in DOMAIN tasks : tasks[n].state = "sleeping" /\ tasks[n].deadline > now
          /\ \A n \in DOMAIN tasks : ~Runnable(tasks[n], now)
          /\ MainWaits
    /\ now' = now + 1
    /\ UNCHANGED <<lesson, pc, fs, out, ret, fut, results>> /\ NoTask /\ NoPointers
    /\ NoSpawned

AsyncSection3 ==
    \/ \E k \in 1..Len(Background) : SpawnBackground(k)
    \/ MainContinues
    \/ \E n \in {Background[k].name : k \in 1..Len(Background)} : RunBackground(n)
    \/ \E k \in 1..Len(Background) : JoinBackground(k)
    \/ PrintCollected

(* ---------------- 16-asynchronous.rs: second main, section 2 ---------------- *)

(* the two println!, then the call of fetch_data_async1(1).await *)
V2CallFetch1 ==
    /\ lesson = "asynchronous_v2" /\ pc = "b2_call1"
    /\ LET r == AsyncCall(fut,
                  out \o <<"--- Calling Async Functions (Initial Blocking Scenario) ---",
                           "Calling async functions without .await returns Futures, it doesn't execute them.">>,
                  "fetch1", 1, 2) IN
         /\ fut' = r.fut
         /\ out' = r.out
    /\ pc' = "b2_await1"
    /\ UNCHANGED <<lesson, fs, ret, now, results>> /\ NoTask /\ NoPointers
    /\ NoSpawned

V2AwaitFetch1 == lesson = "asynchronous_v2" /\ Await("b2_await1", "fetch1", "data1", "b2_result1")

(* println!("Result from Task 1"), then the call of fetch_data_async2(2).await *)
V2CallFetch2 ==
    /\ lesson = "asynchronous_v2" /\ pc = "b2_result1"
    /\ LET r == AsyncCall(fut, Append(out, "Result from Task 1: " \o results["data1"]),
                          "fetch2", 2, 1) IN
         /\ fut' = r.fut
         /\ out' = r.out
    /\ pc' = "b2_await2"
    /\ UNCHANGED <<lesson, fs, ret, now, results>> /\ NoTask /\ NoPointers
    /\ NoSpawned

V2AwaitFetch2 == lesson = "asynchronous_v2" /\ Await("b2_await2", "fetch2", "data2", "b2_result2")

(* the last two println! of section 2; the later sections of this main are
   not part of the model *)
V2PrintResults ==
    /\ lesson = "asynchronous_v2" /\ pc = "b2_result2"
    /\ out' = out \o <<"Result from Task 2: " \o results["data2"],
                       "Notice: Task 1 finishes completely before Task 2 starts"  >>
    /\ pc' = "b3_spawn"
    /\ UNCHANGED <<lesson, fs, ret>> /\ NoTask /\ NoPointers /\ NoFutures
    /\ NoSpawned

AsyncV2Section2 ==
    \/ V2CallFetch1 \/ V2AwaitFetch1 \/ V2CallFetch2 \/ V2AwaitFetch2 \/ V2PrintResults

(* ---------------- the specification ---------------- *)

Next == ErrorHandlingMain \/ AsyncMain \/ PointersStep \/ AsyncSection2 \/ AsyncSection3
          \/ AsyncV2Section2 \/ Tick

Spec == Init /\ [][Next]_vars

(* The shape of the state. *)
TypeOK ==
    /\ lesson \in Lessons
    /\ ret \in {"running", "Ok", "Err", "Panic"}
    /\ tpc \in {"none", "t_create", "t_write", "t_open", "t_read", "t_done"}
    /\ (ret # "running") <=> (pc = "done")

(* ---------------- leftover files ---------------- *)

Exists(path) == path \in DOMAIN fs

(* C8: every file the lesson creates has been deleted by the time the
   lesson's main returns, on every path through main, the early return
   with an error included. *)
CleanupAtReturn ==
    ret # "running" => \A p \in LessonFiles : ~Exists(p)

(* What does hold: main returns with none of the other files left, and
   example.txt is left only by the early return. *)
NoOtherLeftover ==
    ret # "running" =>
        /\ \A p \in LessonFiles \ {"example.txt"} : ~Exists(p)
        /\ Exists("example.txt") => ret = "Err"

(* ---------------- reference counts and borrows ---------------- *)

Printed(msg) == \E k \in 1..Len(out) : out[k] = msg

At(line) == lesson = "pointers" /\ pc = "p_run" /\ ip = IndexOf(line)

LiveRcs(a) == {v \in DOMAIN handle : handle[v].kind = "rc" /\ handle[v].target = a}

(* C14: in the RefCell demonstration every borrow_mut() is made when no
   other borrow of that RefCell is active, so main does not panic (and goes
   on to print the length of data_vec). *)
RefCellDemoNeverPanics ==
    lesson = "pointers" =>
        /\ ret # "Panic"
        /\ \A i \in 1..Len(PointersMain) :
             (At(PointersMain[i].line) /\ PointersMain[i].kind = "borrow_mut")
                => CanBorrowMut(cells, PointersMain[i].b)

(* C15: once shared_vec, rc_clone_a and rc_clone_b have been dropped,
   weak_ref.upgrade() returns None and the 'Failed to upgrade' arm is taken. *)
UpgradeAfterDropsIsNone ==
    lesson = "pointers" =>
        /\ At(429) => ~WeakUpgrade(heap, handle["weak_ref"].target).some
        /\ ~Printed("Successfully upgraded weak reference (after drop)")

(* C16: the strong count reported is 2 right after drop(shared_vec), 1 right
   after drop(rc_clone_a) and 0 right after drop(rc_clone_b). *)
DropCountsReported ==
    lesson = "pointers" =>
        \A n \in 0..Len(PointersMain) :
          /\ Printed("Original Rc dropped. Strong count: " \o ToString(n)) => n = 2
          /\ Printed("First clone dropped. Strong count: " \o ToString(n)) => n = 1
          /\ Printed("Second clone dropped. Strong count: " \o ToString(n)) => n = 0

(* C17: the strong count of shared_vec is 1 after creation, 2 after
   consumer1, 3 after consumer2; Rc::downgrade leaves it at 3 and makes the
   weak count 1; and at every point the strong count of an allocation is the
   number of live Rc handles to it. *)
RcCountsExact ==
    lesson = "pointers" =>
        /\ \A a \in DOMAIN heap : strong_count(heap, a) = Cardinality(LiveRcs(a))
        /\ \A n \in 0..Len(PointersMain) :
             /\ Printed("Strong count after creation: " \o ToString(n)) => n = 1
             /\ Printed("Strong count after consumer1 clone: " \o ToString(n)) => n = 2
             /\ Printed("Strong count after consumer2 clone: " \o ToString(n)) => n = 3
             /\ Printed("Weak reference created. Strong count: " \o ToString(n)) => n = 3
        /\ (At(385) \/ At(389)) =>
             /\ strong_count(heap, "shared_vec") = 3
             /\ weak_count(heap, "shared_vec") = 1

(* C17's case: the three handles and the Weak exist and the counts were printed. *)
RcCountsWitness ==
    /\ At(389)
    /\ LiveRcs("shared_vec") = {"shared_vec", "consumer1", "consumer2"}
    /\ handle["weak_ref"].kind = "weak"
    /\ Printed("Weak reference created. Strong count: 3")

(* ---------------- the order of the asynchronous output ---------------- *)

TaskOutput == {Fetching(1), Fetching(2), Fetched(1), Fetched(2)}

Position(msg) == CHOOSE k \in 1..Len(out) : out[k] = msg

Before(m1, m2) == Printed(m1) /\ (Printed(m2) => Position(m1) < Position(m2))

(* C18: in section 2 of the first main both '[Task n] Fetching' lines are
   printed before either 'Data fetched' line, and both futures are complete
   after a single delay of 2 seconds. *)
FetchesRunConcurrently ==
    lesson = "asynchronous" =>
        /\ \A i \in {1, 2} :
             Printed(Fetched(i)) => Before(Fetching(1), Fetched(i)) /\ Before(Fetching(2), Fetched(i))
        /\ pc = "a2_results" => now = fut["future1"].delay

(* C19: in the second main Task 1 has printed 'Data fetched' and returned
   its value before Task 2 prints anything. *)
Task1FinishesBeforeTask2Starts ==
    lesson = "asynchronous_v2" =>
        \A m \in {Fetching(2), Fetched(2)} :
          Printed(m) =>
            /\ Before(Fetching(1), m)
            /\ Before(Fetched(1), m)
            /\ "data1" \in DOMAIN results
            /\ results["data1"] = FetchValue(1)

(* C19's case: Task 2 has started. *)
Task2StartedWitness ==
    /\ lesson = "asynchronous_v2"
    /\ Printed(Fetching(2))
    /\ fut["fetch2"].state = "sleeping"

(* C20: calling an async fn runs none of its body: no '[Task n]' line is
   printed between the calls and the first .await (first main), and a future
   that has not been polled has printed nothing (both mains). *)
CallRunsNoBody ==
    /\ (lesson = "asynchronous" /\ pc \in {"a2_call2", "a2_print"})
          => \A m \in TaskOutput : ~Printed(m)
    /\ lesson = "asynchronous"
          => \A m \in TaskOutput : Printed(m) => Before("Futures created, but not yet executed.", m)
    /\ \A f \in DOMAIN fut :
          fut[f].state = "created" => ~Printed(Fetching(fut[f].id)) /\ ~Printed(Fetched(fut[f].id))

(* C20's case: both futures exist, main is at the first .await and has not
   polled yet. *)
FuturesCreatedWitness ==
    /\ lesson = "asynchronous" /\ pc = "a2_await1"
    /\ DOMAIN fut = {"future1", "future2"}
    /\ \A f \in DOMAIN fut : fut[f].state = "created"
    /\ Printed("Futures created, but not yet executed.")
    /\ \A m \in TaskOutput : ~Printed(m)

(* ---------------- the spawned background tasks ---------------- *)

TaskNames == {Background[k].name : k \in 1..Len(Background)}

CollectedInOrder == Collected(TaskResult("Task A"), TaskResult("Task B"), TaskResult("Task C"))

(* C21: main prints 'Collected results' only after all three background
   tasks have printed 'Finished!', and the collected results are in handle
   order A, B, C whatever the order in which the tasks finished. *)
CollectedAfterAllFinished ==
    lesson = "asynchronous" =>
        \A a \in TaskNames, b \in TaskNames, c \in TaskNames :
          \A ra \in {"", TaskResult(a)}, rb \in {"", TaskResult(b)}, rc \in {"", TaskResult(c)} :
            Printed(Collected(ra, rb, rc)) =>
              /\ Collected(ra, rb, rc) = CollectedInOrder
              /\ \A n \in TaskNames : Before(Finished(n), Collected(ra, rb, rc))

(* C21's case: the results were collected although Task B finished before
   Task A. *)
CollectedWitness ==
    /\ lesson = "asynchronous"
    /\ Printed(CollectedInOrder)
    /\ Position(Finished("Task B")) < Position(Finished("Task A"))

(* ---------------- the mpsc channel ---------------- *)

AllMessages == [i \in 1..LoopEnd |-> Message(i - 1)]

IsPrefix(s, t) == Len(s) <= Len(t) /\ SubSeq(t, 1, Len(s)) = s

(* C22: under every interleaving of producer and consumer the messages the
   consumer has received, followed by those still in the channel, are a
   prefix of Message 0, Message 1, Message 2; the channel never holds more
   than its capacity; and when the consumer prints 'Channel closed' it has
   received all three. *)
ChannelDelivers ==
    lesson = "asynchronous" =>
        /\ IsPrefix(cons.received, AllMessages)
        /\ IsPrefix(cons.received \o chan.buf, AllMessages)
        /\ Len(chan.buf) <= Capacity
        /\ Printed("[Consumer] Channel closed.") => cons.received = AllMessages

(* C22's case: the consumer has seen the channel closed after the producer
   sent all three messages. *)
ChannelClosedWitness ==
    /\ lesson = "asynchronous"
    /\ Printed("[Consumer] Channel closed.")
    /\ prod.pc = "done"
    /\ cons.received = AllMessages

====
